---- MODULE Spec2Model ----
(***************************************************************************)
(* The decompiler's driver script (one run of the command line program)    *)
(* as a state machine: cache validation, module loading, entry filtering,  *)
(* pre-parsing, tagging, ignore propagation, decompiling, code generation, *)
(* saving and cache writing, in the order of the script.                   *)
(*                                                                         *)
(* A bundle is a sparse mapping moduleId -> __d registration.  The text of *)
(* a registration is abstracted to what the script reads of it: its        *)
(* dependency ids and whether its body is the minified array-spread helper *)
(* ("spread"), any other body ("plain"), or the empty factory stub the     *)
(* aggressive cache substitutes ("stub"); a __d call that has not the      *)
(* shape of a registration is "malformed".                                 *)
(***************************************************************************)
EXTENDS Integers, FiniteSets, Sequences, TLC

\* Largest module id of the bundles explored.
MaxModuleId == 1

\* Largest number of dependency ids in one __d registration.
MaxDeps == 1

\* argValues.entry when no -e option is given (undefined in the script).
NoEntry == -1

\* cached.originalCode.length > 128 decides whether a body may be stubbed.
StubThreshold == 128

Ids == 0..MaxModuleId

DepSets == {d \in SUBSET Ids : Cardinality(d) <= MaxDeps}

\* The source text of one __d(...) call, as far as the script reads it.
Registration == [deps : DepSets, body : {"plain", "spread"}]

\* The empty factory stub `__d(function(g,r,i,a,m,e,d){},${moduleId},[])`.
StubCode == [deps |-> {}, body |-> "stub"]

\* A __d(...) call whose arguments do not have the shape of a registration.
MalformedCall == [deps |-> {}, body |-> "malformed"]

\* inputJsFile: every bundle text over the ids, the empty one included.  The
\* index of a call is its place in the text; a registration carries the
\* moduleId equal to it.
Bundles == UNION {[S -> Registration \cup {MalformedCall}] : S \in SUBSET Ids}

Entries == Ids \cup {NoEntry}

\* crypto.createHash('md5').update(text).digest('hex'): collision free on
\* the bundles explored, so a digest is the tagged text it was taken of.
Md5Hex(text) == <<"md5", text>>

\* Length of a registration's source text.  The array-spread fingerprint
\* alone is 99 characters and the __d(function(g,r,i,a,m,e,d) wrapper with
\* the id and dependency array adds at least 33, so a "spread" body is
\* always longer than the stub threshold; the stub is 38 characters.  The
\* length of a plain body is only ever read for NPM modules, which plain
\* bodies never are.
CodeLength(code) == IF code.body = "spread" THEN 132 + Cardinality(code.deps)
                    ELSE 38 + Cardinality(code.deps)

\* BabelModuleFinder.evaluate's arraySpreadRegex.test(originalCode).
ArraySpreadRegexTest(code) == code.body = "spread"

BabelHelperName == "@babel/runtime/helpers/toConsumableArray"

\* new Module(nodePath, originalFile): the fields the script reads.
NewModule(id, code) ==
    [moduleId |-> id, dependencies |-> code.deps, originalCode |-> code,
     ignored |-> FALSE, isNpmModule |-> FALSE, npmModuleName |-> ""]

\* ModuleFinder.tagAsNpmModule(packageName).
TagAsNpmModule(m, packageName) ==
    [m EXCEPT !.isNpmModule = TRUE, !.npmModuleName = packageName,
              !.ignored = TRUE]

\* BabelModuleFinder.evaluate() on one module.
BabelEvaluateAssignsMatch(m) ==
    IF ArraySpreadRegexTest(m.originalCode)
    THEN TagAsNpmModule(m, BabelHelperName)
    ELSE [m EXCEPT !.ignored = FALSE]

BabelEvaluateTagsNonMatch(m) ==
    IF ~ArraySpreadRegexTest(m.originalCode)
    THEN TagAsNpmModule(m, BabelHelperName)
    ELSE m

BabelEvaluateTogglesIgnored(m) ==
    IF ArraySpreadRegexTest(m.originalCode)
    THEN [m EXCEPT !.isNpmModule = TRUE, !.npmModuleName = BabelHelperName,
                   !.ignored = ~m.ignored]
    ELSE m

BabelEvaluate(m) ==
    IF ArraySpreadRegexTest(m.originalCode)
    THEN TagAsNpmModule(m, BabelHelperName)
    ELSE m

\* The Module constructor's shape check: construction of a module from
\* this call fails with MalformedRegistration.
MalformedRegistration(code) == code.body = "malformed"

\* The array of Module built by the fresh-parse visitor: every __d call of
\* the text is registered at the index of its moduleId.
ParseBundle(text) == [i \in DOMAIN text |-> NewModule(i, text[i])]

\* `new Module(nodePath, originalFile)` sits in the visitor without a
\* try/catch: the first failing construction leaves traverse() and the
\* script as an uncaught exception.
ParseThrows(text) == \E i \in DOMAIN text : MalformedRegistration(text[i])

\* What the visitor had registered when the exception left it: the calls
\* that precede the first malformed one in the text.
RegisteredBeforeThrow(text) ==
    [i \in {j \in DOMAIN text :
               \A k \in DOMAIN text : MalformedRegistration(text[k]) => j < k}
        |-> NewModule(i, text[i])]

\* modules.length of a sparse array: one past its largest occupied index.
ArrayLengthOneBased(arr) == Cardinality(DOMAIN arr) + 1

ArrayLength(arr) ==
    IF DOMAIN arr = {} THEN 0
    ELSE (CHOOSE i \in DOMAIN arr : \A j \in DOMAIN arr : j <= i) + 1

\* One pass of entryModuleDependencies.forEach: the ids found in the graph
\* add their dependencies (a Set's forEach also visits what the pass adds;
\* the enclosing while loop repeats the pass until the size is stable).
ClosurePassEntryOnly(mods, deps) == deps

ClosurePass(mods, deps) ==
    deps \cup UNION {mods[i].dependencies : i \in deps \cap DOMAIN mods}

RECURSIVE ClosureLoop(_, _, _)
ClosureLoop(mods, deps, lastDependenciesSize) ==
    IF lastDependenciesSize = Cardinality(deps) THEN deps
    ELSE ClosureLoop(mods, ClosurePass(mods, deps), Cardinality(deps))

\* entryModuleDependencies when the while loop ends without a throw.
EntryModuleDependencies(mods, entry) == ClosureLoop(mods, {entry}, 0)

\* modules.find(...) came back undefined for some visited id.
MissingDependencyIgnored(mods, entry) == FALSE

MissingDependency(mods, entry) ==
    \E id \in EntryModuleDependencies(mods, entry) : id \notin DOMAIN mods

\* modules.forEach((mod, i) => { if (!deps.has(mod.moduleId)) delete modules[i] })
DeleteUnused(mods, deps) ==
    [i \in {j \in DOMAIN mods : mods[j].moduleId \in deps} |-> mods[i]]

\* modules.filter((otherMod) => otherMod.dependencies.includes(mod.moduleId))
DependentModules(mods, id) ==
    {o \in DOMAIN mods : id \in mods[o].dependencies}

\* The filter predicate of calculateModulesToIgnore.
ShouldIgnoreNoCycleCase(mods, id) ==
    /\ ~mods[id].ignored
    /\ DependentModules(mods, id) # {}
    /\ \A o \in DependentModules(mods, id) : mods[o].ignored

ShouldIgnore(mods, id) ==
    /\ ~mods[id].ignored
    /\ DependentModules(mods, id) # {}
    /\ \A o \in DependentModules(mods, id) :
          mods[o].ignored \/ o \in mods[id].dependencies

\* calculateModulesToIgnore(): modulesToIgnore after the call; under the
\* aggressive cache the function returns at once and leaves it as it was.
CalculateModulesToIgnoreInverted(mods, agressiveCache, previous) ==
    IF ~agressiveCache THEN previous
    ELSE {id \in DOMAIN mods : ShouldIgnore(mods, id)}

CalculateModulesToIgnore(mods, agressiveCache, previous) ==
    IF agressiveCache THEN previous
    ELSE {id \in DOMAIN mods : ShouldIgnore(mods, id)}

\* modulesToIgnore.forEach((mod) => { mod.ignored = true })
MarkIgnoredPrunes(mods, toIgnore) ==
    [i \in DOMAIN mods \ toIgnore |-> mods[i]]

MarkIgnored(mods, toIgnore) ==
    [i \in DOMAIN mods |->
        IF i \in toIgnore THEN [mods[i] EXCEPT !.ignored = TRUE] ELSE mods[i]]

\* modules.filter((mod) => argValues.decompileIgnored || !mod.ignored)
NonIgnoredKeepsAll(mods, decompileIgnored) == DOMAIN mods

NonIgnoredInverted(mods, decompileIgnored) ==
    {i \in DOMAIN mods : decompileIgnored \/ mods[i].ignored}

NonIgnored(mods, decompileIgnored) ==
    {i \in DOMAIN mods : decompileIgnored \/ ~mods[i].ignored}

\* The tagging pass: the tagger list runs on every selected module.
TagModules(mods, selected) ==
    [i \in DOMAIN mods |->
        IF i \in selected THEN BabelEvaluate(mods[i]) ELSE mods[i]]

\* Module.loadCache(cached): the cached classification is taken over.
LoadCache(m, cached) ==
    [m EXCEPT !.ignored = cached.ignored, !.isNpmModule = cached.isNpmModule,
              !.npmModuleName = cached.npmModuleName]

\* One entry of the cache file's modules, as CacheParse.writeCache stores it.
CachedModule(m) ==
    [moduleId |-> m.moduleId, originalCode |-> m.originalCode,
     ignored |-> m.ignored, isNpmModule |-> m.isNpmModule,
     npmModuleName |-> m.npmModuleName]

\* new CacheParse(inputJsFile, '').writeCache(cacheFileName, modules)
WrittenCacheFile(text, mods) ==
    [checksum |-> Md5Hex(text),
     modules |-> [i \in DOMAIN mods |-> CachedModule(mods[i])]]

\* cacheFile.checksum !== md5(inputJsFile)
ChecksumNeverMismatch(cache, text) == FALSE

ChecksumMismatch(cache, text) == cache.checksum # Md5Hex(text)

\* cacheFile.modules.filter(c => !agressiveCache || !c.ignored || c.isNpmModule)
ValidCachedModulesAll(cache, agressiveCache) == DOMAIN cache.modules

ValidCachedModules(cache, agressiveCache) ==
    {i \in DOMAIN cache.modules :
        \/ ~agressiveCache
        \/ ~cache.modules[i].ignored
        \/ cache.modules[i].isNpmModule}

\* canIgnoreModuleBody
CanIgnoreModuleBodyAnyMode(cached, agressiveCache) ==
    /\ cached.isNpmModule
    /\ CodeLength(cached.originalCode) > StubThreshold

CanIgnoreModuleBody(cached, agressiveCache) ==
    /\ agressiveCache
    /\ cached.isNpmModule
    /\ CodeLength(cached.originalCode) > StubThreshold

\* The array of Module built by the cache visitor.
LoadCachedModules(cache, agressiveCache) ==
    [i \in ValidCachedModules(cache, agressiveCache) |->
        LET cached == cache.modules[i]
            code == IF CanIgnoreModuleBody(cached, agressiveCache)
                    THEN StubCode ELSE cached.originalCode
        IN  LoadCache(NewModule(cached.moduleId, code), cached)]

\* The ignore loop run to its end (calculate, then mark and recalculate
\* while something is to be ignored), without the aggressive cache.
RECURSIVE IgnoreLoopResult(_)
IgnoreLoopResult(mods) ==
    LET toIgnore == CalculateModulesToIgnore(mods, FALSE, {})
    IN  IF toIgnore = {} THEN mods
        ELSE IgnoreLoopResult(MarkIgnored(mods, toIgnore))

\* `else if (argValues.agressiveCache)` of the `if (cacheFile)`: exit(1).
ExitsWithoutCacheNever(fileExists, agressiveCache) == FALSE

ExitsWithoutCache(fileExists, agressiveCache) ==
    ~fileExists /\ agressiveCache

\* `argValues.entry && !argValues.agressiveCache`: entry 0 is falsy.
WritesCache(args) ==
    args.entry # NoEntry /\ args.entry # 0 /\ ~args.agressiveCache

\* `argValues.entry != null && (!argValues.agressiveCache || !cacheFile)`
FiltersByEntry(args, cache) ==
    args.entry # NoEntry /\ (~args.agressiveCache \/ Len(cache) = 0)

\* The module array at the end of ignore propagation of a fresh run: no
\* cache file, no aggressive cache, the bundle parsed (lines 131-149),
\* filtered by the entry (160-184), tagged (186-209) and propagated (223-237).
FreshRunModules(text, entry, decompileIgnored) ==
    LET parsed   == ParseBundle(text)
        filtered == IF entry # NoEntry
                    THEN DeleteUnused(parsed,
                            EntryModuleDependencies(parsed, entry))
                    ELSE parsed
        tagged0  == TagModules(filtered, NonIgnored(filtered, decompileIgnored))
    IN  IgnoreLoopResult(tagged0)

\* The names of the files the fresh run generates and saves (247-297).
FreshRunEmitted(text, entry, decompileIgnored) ==
    LET mods == FreshRunModules(text, entry, decompileIgnored)
    IN  {mods[i].moduleId : i \in NonIgnored(mods, decompileIgnored)}

(***************************************************************************)
(* The cache files a run can find on disk are the ones an earlier run of   *)
(* the program wrote under the same cache file name (the same entry): a    *)
(* completed, non-aggressive run with a truthy entry, on this bundle (the  *)
(* checksum then matches) or on an earlier revision of it (it does not).   *)
(***************************************************************************)
EarlierRunCompletes(text, entry) ==
    /\ entry # NoEntry /\ entry # 0
    /\ ~ParseThrows(text)
    /\ ArrayLength(ParseBundle(text)) # 0
    /\ ~MissingDependency(ParseBundle(text), entry)

EarlierRunCache(text, entry) ==
    LET parsed   == ParseBundle(text)
        filtered == DeleteUnused(parsed, EntryModuleDependencies(parsed, entry))
        tagged0  == TagModules(filtered, NonIgnored(filtered, FALSE))
    IN  WrittenCacheFile(text, IgnoreLoopResult(tagged0))

\* Earlier revisions of the bundle: one module was since added, or was
\* since rewritten from a plain module without dependencies.
EarlierRevisions(text) ==
    ({[i \in DOMAIN text \ {k} |-> text[i]] : k \in DOMAIN text}
     \cup {[i \in DOMAIN text \cup {k} |->
              IF i = k THEN [deps |-> {}, body |-> "plain"] ELSE text[i]] :
           k \in Ids}) \ {text}

\* file.code of a module's generated file: the generator's output for the
\* module's code.
GeneratedCode(m) == <<"js", m.originalCode>>

\* The code generated for the file called `name`, the moduleId of its module.
FileCode(mods, name) ==
    GeneratedCode(mods[CHOOSE i \in DOMAIN mods : mods[i].moduleId = name])

\* `!existsSync(filePath) || readFileSync(filePath, 'utf-8') !== file.code`
NeedsWriteAlways(dir, name, code) == TRUE

NeedsWrite(dir, name, code) == name \notin DOMAIN dir \/ dir[name] # code

\* The generatedFiles.forEach of the save loop: the names written, and the
\* output folder after it.
WrittenFiles(dir, mods, names) ==
    {f \in names : NeedsWrite(dir, f, FileCode(mods, f))}

SavedOutDir(dir, mods, names) ==
    [f \in DOMAIN dir \cup WrittenFiles(dir, mods, names) |->
        IF f \in WrittenFiles(dir, mods, names) THEN FileCode(mods, f)
        ELSE dir[f]]

\* The output folder the earlier run left behind (it ran without
\* decompileIgnored into the folder while it was empty).
EarlierRunFiles(text, entry) ==
    SavedOutDir(<<>>, FreshRunModules(text, entry, FALSE),
                FreshRunEmitted(text, entry, FALSE))

DiskCaches(text, entry) ==
    {<<>>}
    \cup {<<EarlierRunCache(t, entry)>> :
            t \in {u \in {text} \cup EarlierRevisions(text) :
                     EarlierRunCompletes(u, entry)}}

\* The output folder that goes with a cache file: empty when no earlier run
\* left a cache, else what the run that wrote the cache saved.
OutDirs(text, entry, cache) ==
    IF Len(cache) = 0 THEN {<<>>}
    ELSE {EarlierRunFiles(t, entry) :
            t \in {u \in {text} \cup EarlierRevisions(text) :
                     /\ EarlierRunCompletes(u, entry)
                     /\ EarlierRunCache(u, entry) = cache[1]}}

VARIABLES
    bundle,             \* inputJsFile
    argv,               \* argValues: entry, decompileIgnored, agressiveCache
    diskCache,          \* the file cacheFileName: <<>> or <<its content>>
    cacheFile,          \* the script's cacheFile: <<>> (undefined) or <<content>>
    cacheCheck,         \* which branch cache validation took
    modules,            \* the sparse array of Module
    modulesToIgnore,    \* ids of the modules calculateModulesToIgnore selected
    nonIgnoredModules,  \* ids of the modules the current stage runs on
    initialized,        \* ids on which initalize() ran
    tagged,             \* ids on which the tagger router ran
    rewritten,          \* ids on which the editor and decompiler routers ran
    generatedFiles,     \* names of the generated files
    savedFiles,         \* names handed to the save loop
    cacheWrites,        \* number of writeCache calls
    outDir,             \* the output folder: file name -> content
    fileWrites,         \* names of the files writeFileSync was called on
    rounds,             \* iterations of the ignore loop
    pc                  \* the stage the script is about to run

vars == <<bundle, argv, diskCache, cacheFile, cacheCheck, modules,
          modulesToIgnore, nonIgnoredModules, initialized, tagged, rewritten,
          generatedFiles, savedFiles, cacheWrites, outDir, fileWrites,
          rounds, pc>>

inputs == <<bundle, argv>>
effects == <<initialized, tagged, rewritten, generatedFiles, savedFiles>>
folder == <<outDir, fileWrites>>

Init ==
    /\ bundle \in Bundles
    /\ argv \in [entry : Entries, decompileIgnored : BOOLEAN,
                 agressiveCache : BOOLEAN]
    /\ diskCache \in DiskCaches(bundle, argv.entry)
    /\ cacheFile = <<>>
    /\ cacheCheck = "pending"
    /\ modules = <<>>
    /\ modulesToIgnore = {}
    /\ nonIgnoredModules = {}
    /\ initialized = {}
    /\ tagged = {}
    /\ rewritten = {}
    /\ generatedFiles = {}
    /\ savedFiles = {}
    /\ cacheWrites = 0
    /\ outDir \in OutDirs(bundle, argv.entry, diskCache)
    /\ fileWrites = {}
    /\ rounds = 0
    /\ pc = "validate"

\* Lines 89-103: read the cache file, validate its checksum.
ValidateCache ==
    /\ pc = "validate"
    /\ IF Len(diskCache) > 0
       THEN IF ChecksumMismatch(diskCache[1], bundle)
            THEN /\ diskCache' = <<>>
                 /\ cacheFile' = <<>>
                 /\ cacheCheck' = "invalidated"
                 /\ pc' = "load"
            ELSE /\ cacheFile' = diskCache
                 /\ cacheCheck' = "validated"
                 /\ pc' = "load"
                 /\ UNCHANGED diskCache
       ELSE /\ cacheCheck' = "absent"
            /\ pc' = IF ExitsWithoutCache(Len(diskCache) > 0,
                                          argv.agressiveCache)
                     THEN "exited" ELSE "load"
            /\ UNCHANGED <<diskCache, cacheFile>>
    /\ UNCHANGED <<inputs, folder, modules, modulesToIgnore, nonIgnoredModules,
                   effects, cacheWrites, rounds>>

\* Lines 108-149: build the module array from the cache or from the bundle.
LoadModules ==
    /\ pc = "load"
    /\ IF Len(cacheFile) > 0
       THEN /\ modules' = LoadCachedModules(cacheFile[1], argv.agressiveCache)
            /\ pc' = "check"
       ELSE IF ParseThrows(bundle)
            THEN /\ modules' = RegisteredBeforeThrow(bundle)
                 /\ pc' = "thrown"
            ELSE /\ modules' = ParseBundle(bundle)
                 /\ pc' = "check"
    /\ UNCHANGED <<inputs, folder, diskCache, cacheFile, cacheCheck, modulesToIgnore,
                   nonIgnoredModules, effects, cacheWrites, rounds>>

\* Lines 151-158: no module found is fatal.
CheckModules ==
    /\ pc = "check"
    /\ pc' = IF ArrayLength(modules) = 0 THEN "exited" ELSE "filter"
    /\ UNCHANGED <<inputs, folder, diskCache, cacheFile, cacheCheck, modules,
                   modulesToIgnore, nonIgnoredModules, effects, cacheWrites,
                   rounds>>

\* Lines 160-184: keep the entry module and what it depends on.
FilterEntry ==
    /\ pc = "filter"
    /\ IF FiltersByEntry(argv, cacheFile)
       THEN IF MissingDependency(modules, argv.entry) /\ ~argv.agressiveCache
            THEN pc' = "thrown" /\ UNCHANGED modules
            ELSE /\ modules' = DeleteUnused(modules,
                                 EntryModuleDependencies(modules, argv.entry))
                 /\ pc' = "preparse"
       ELSE pc' = "preparse" /\ UNCHANGED modules
    /\ UNCHANGED <<inputs, folder, diskCache, cacheFile, cacheCheck, modulesToIgnore,
                   nonIgnoredModules, effects, cacheWrites, rounds>>

\* Lines 186-197: select the modules to work on and initalize() each.
PreParse ==
    /\ pc = "preparse"
    /\ nonIgnoredModules' = NonIgnored(modules, argv.decompileIgnored)
    /\ initialized' = nonIgnoredModules'
    /\ pc' = "tag"
    /\ UNCHANGED <<inputs, folder, diskCache, cacheFile, cacheCheck, modules,
                   modulesToIgnore, tagged, rewritten, generatedFiles,
                   savedFiles, cacheWrites, rounds>>

\* Lines 203-209: the tagger router runs on every selected module.
Tagging ==
    /\ pc = "tag"
    /\ modules' = TagModules(modules, nonIgnoredModules)
    /\ tagged' = nonIgnoredModules
    /\ pc' = "calculate"
    /\ UNCHANGED <<inputs, folder, diskCache, cacheFile, cacheCheck, modulesToIgnore,
                   nonIgnoredModules, initialized, rewritten, generatedFiles,
                   savedFiles, cacheWrites, rounds>>

\* Line 231: the first calculateModulesToIgnore() call.
CalculateFirst ==
    /\ pc = "calculate"
    /\ modulesToIgnore' = CalculateModulesToIgnore(modules,
                             argv.agressiveCache, modulesToIgnore)
    /\ pc' = "ignoreLoop"
    /\ UNCHANGED <<inputs, folder, diskCache, cacheFile, cacheCheck, modules,
                   nonIgnoredModules, effects, cacheWrites, rounds>>

\* Lines 232-237: one iteration of the while loop, or its exit.
IgnoreLoopLeavesAtOnce ==
    /\ pc = "ignoreLoop"
    /\ pc' = "decompile"
    /\ UNCHANGED <<inputs, folder, diskCache, cacheFile, cacheCheck, modules,
                   modulesToIgnore, nonIgnoredModules, effects, cacheWrites,
                   rounds>>

IgnoreLoopWithoutMarking ==
    /\ pc = "ignoreLoop"
    /\ IF modulesToIgnore # {}
       THEN /\ modulesToIgnore' = CalculateModulesToIgnore(modules,
                                     argv.agressiveCache, modulesToIgnore)
            /\ rounds' = rounds + 1
            /\ UNCHANGED <<modules, pc>>
       ELSE /\ pc' = "decompile"
            /\ UNCHANGED <<modules, modulesToIgnore, rounds>>
    /\ UNCHANGED <<inputs, folder, diskCache, cacheFile, cacheCheck,
                   nonIgnoredModules, effects, cacheWrites>>

IgnoreLoop ==
    /\ pc = "ignoreLoop"
    /\ IF modulesToIgnore # {}
       THEN /\ modules' = MarkIgnored(modules, modulesToIgnore)
            /\ modulesToIgnore' = CalculateModulesToIgnore(modules',
                                     argv.agressiveCache, modulesToIgnore)
            /\ rounds' = rounds + 1
            /\ UNCHANGED pc
       ELSE /\ pc' = "decompile"
            /\ UNCHANGED <<modules, modulesToIgnore, rounds>>
    /\ UNCHANGED <<inputs, folder, diskCache, cacheFile, cacheCheck,
                   nonIgnoredModules, effects, cacheWrites>>

\* Lines 247-261: reselect, then run the editors and decompilers.
Decompile ==
    /\ pc = "decompile"
    /\ nonIgnoredModules' = NonIgnored(modules, argv.decompileIgnored)
    /\ rewritten' = nonIgnoredModules'
    /\ pc' = "generate"
    /\ UNCHANGED <<inputs, folder, diskCache, cacheFile, cacheCheck, modules,
                   modulesToIgnore, initialized, tagged, generatedFiles,
                   savedFiles, cacheWrites, rounds>>

\* Lines 272-283: one generated file per selected module, named by its id.
GenerateCode ==
    /\ pc = "generate"
    /\ generatedFiles' = {modules[i].moduleId : i \in nonIgnoredModules}
    /\ pc' = "save"
    /\ UNCHANGED <<inputs, folder, diskCache, cacheFile, cacheCheck, modules,
                   modulesToIgnore, nonIgnoredModules, initialized, tagged,
                   rewritten, savedFiles, cacheWrites, rounds>>

\* Lines 291-297: the save loop visits every generated file.
SaveFiles ==
    /\ pc = "save"
    /\ savedFiles' = generatedFiles
    /\ fileWrites' = WrittenFiles(outDir, modules, generatedFiles)
    /\ outDir' = SavedOutDir(outDir, modules, generatedFiles)
    /\ pc' = "cache"
    /\ UNCHANGED <<inputs, diskCache, cacheFile, cacheCheck, modules,
                   modulesToIgnore, nonIgnoredModules, initialized, tagged,
                   rewritten, generatedFiles, cacheWrites, rounds>>

\* Lines 301-304: persist the cache when an entry was given.
WriteCache ==
    /\ pc = "cache"
    /\ IF WritesCache(argv)
       THEN /\ diskCache' = <<WrittenCacheFile(bundle, modules)>>
            /\ cacheWrites' = cacheWrites + 1
       ELSE UNCHANGED <<diskCache, cacheWrites>>
    /\ pc' = "done"
    /\ UNCHANGED <<inputs, folder, cacheFile, cacheCheck, modules, modulesToIgnore,
                   nonIgnoredModules, effects, rounds>>

Next ==
    \/ ValidateCache
    \/ LoadModules
    \/ CheckModules
    \/ FilterEntry
    \/ PreParse
    \/ Tagging
    \/ CalculateFirst
    \/ IgnoreLoop
    \/ Decompile
    \/ GenerateCode
    \/ SaveFiles
    \/ WriteCache

Spec == Init /\ [][Next]_vars

\* The script is a sequential program that keeps running: a stage that can
\* run does run.
FairSpec == Spec /\ WF_vars(Next)

(***************************************************************************)
(* Properties.                                                             *)
(***************************************************************************)

\* Ids reachable from e through `dependencies` in the graph mods, e included:
\* the ends of the dependency paths that start at e.
DependencyPaths == UNION {[1..n -> Ids] : n \in 1..(MaxModuleId + 2)}

Reachable(mods, e) ==
    {p[Len(p)] : p \in {q \in DependencyPaths :
        /\ q[1] = e
        /\ \A k \in 1..(Len(q) - 1) :
              q[k] \in DOMAIN mods /\ q[k + 1] \in mods[q[k]].dependencies}}

IgnoredIds(mods) == {i \in DOMAIN mods : mods[i].ignored}

PropagatorPredicate(mods, m) ==
    /\ ~mods[m].ignored /\ ~mods[m].isNpmModule
    /\ \E o \in DOMAIN mods : m \in mods[o].dependencies
    /\ \A o \in DOMAIN mods :
          m \in mods[o].dependencies
             => (mods[o].ignored \/ o \in mods[m].dependencies)

PropagatorStep(guard) ==
    (pc = "ignoreLoop" /\ guard) =>
       /\ IgnoredIds(modules') =
             IgnoredIds(modules)
                \cup {m \in DOMAIN modules : PropagatorPredicate(modules, m)}
       /\ pc' = "decompile" =>
             \A m \in DOMAIN modules' : ~PropagatorPredicate(modules', m)
       /\ \A m \in IgnoredIds(modules') \ IgnoredIds(modules) :
             \E o \in DOMAIN modules : m \in modules[o].dependencies

C3_IgnoredIsMonotone ==
    [][\A i \in DOMAIN modules \cap DOMAIN modules' :
          modules[i].ignored => modules'[i].ignored]_vars

\* A run on a validated cache, with decompileIgnored, completed: the taggers
\* ran on modules the cache had loaded as ignored, an NPM module and a module
\* the propagator had ignored, and both are still ignored.
C3_Witness ==
    /\ pc = "done" /\ cacheCheck = "validated" /\ argv.decompileIgnored
    /\ \E i \in tagged : modules[i].ignored /\ modules[i].isNpmModule
    /\ \E i \in tagged : modules[i].ignored /\ ~modules[i].isNpmModule

AllConsumersIgnored(mods, m) ==
    /\ \E o \in DOMAIN mods : m \in mods[o].dependencies
    /\ \A o \in DOMAIN mods : m \in mods[o].dependencies => mods[o].ignored

ConsumersIgnoredAtEnd(guard) ==
    (pc = "done" /\ guard) =>
       \A m \in DOMAIN modules :
          AllConsumersIgnored(modules, m) => modules[m].ignored

\* C4 (as amended): at the end of every completed run without the aggressive
\* cache, every module of the graph that has a consumer and whose consumers
\* are all ignored is itself ignored.
C4_ConsumersIgnoredNonAggressive == ConsumersIgnoredAtEnd(~argv.agressiveCache)

\* C4 (as claimed): the same at the end of every completed run.
C4_ConsumersIgnoredEveryRun == ConsumersIgnoredAtEnd(TRUE)

\* A completed non-aggressive run ends with a module that is no NPM module
\* ignored because all its consumers are.
C4_Witness ==
    /\ pc = "done" /\ ~argv.agressiveCache
    /\ \E m \in DOMAIN modules :
          /\ AllConsumersIgnored(modules, m)
          /\ modules[m].ignored /\ ~modules[m].isNpmModule

\* C5: once the files are saved, the emitted file names are the moduleIds of
\* the modules of the graph that are not ignored, or of every module of the
\* graph under decompileIgnored; no ignored module is emitted without it.
C5_EmittedIffNotIgnored ==
    pc \in {"cache", "done"} =>
       /\ savedFiles =
             {modules[i].moduleId :
                i \in {j \in DOMAIN modules :
                         argv.decompileIgnored \/ ~modules[j].ignored}}
       /\ ~argv.decompileIgnored =>
             \A i \in DOMAIN modules : modules[i].ignored => i \notin savedFiles

\* A run without decompileIgnored emitted a module and withheld an ignored one.
C5_Witness ==
    /\ pc = "done" /\ ~argv.decompileIgnored
    /\ savedFiles # {}
    /\ \E i \in DOMAIN modules : modules[i].ignored /\ i \notin savedFiles

\* C6: a cache file whose stored checksum differs from the digest of the
\* bundle is removed and not used, and the modules are then the ones parsed
\* from the bundle, none of them classified.
C6_StaleCacheDiscarded ==
    [][/\ (/\ pc = "validate" /\ Len(diskCache) > 0
           /\ diskCache[1].checksum # Md5Hex(bundle))
          => /\ diskCache' = <<>> /\ cacheFile' = <<>>
             /\ cacheCheck' = "invalidated" /\ pc' = "load"
       /\ (/\ pc = "load" /\ cacheCheck = "invalidated"
           /\ \A i \in DOMAIN bundle : bundle[i] \in Registration)
          => /\ pc' = "check"
             /\ DOMAIN modules' = DOMAIN bundle
             /\ \A i \in DOMAIN bundle :
                   /\ modules'[i].moduleId = i
                   /\ modules'[i].dependencies = bundle[i].deps
                   /\ modules'[i].originalCode = bundle[i]
                   /\ ~modules'[i].ignored /\ ~modules'[i].isNpmModule
       /\ (pc = "load" /\ cacheCheck = "invalidated")
          => /\ \A i \in DOMAIN modules' :
                   /\ modules'[i].originalCode = bundle[i]
                   /\ ~modules'[i].ignored /\ ~modules'[i].isNpmModule]_vars

\* After a checksum mismatch the bundle's modules were parsed afresh.
C6_Witness ==
    /\ pc = "check" /\ cacheCheck = "invalidated"
    /\ diskCache = <<>> /\ cacheFile = <<>>
    /\ DOMAIN modules # {}

\* C7 (as amended): with agressiveCache set and no cache file on disk the run
\* exits before any module is loaded; past cache validation a cache file
\* existed: it validated and is in use, or its checksum mismatched, it was
\* discarded and the run goes on without a cache.
C7_AggressiveNeedsCacheFile ==
    (argv.agressiveCache /\ pc # "validate") =>
       \/ cacheCheck = "absent" /\ pc = "exited" /\ DOMAIN modules = {}
       \/ cacheCheck = "validated" /\ Len(cacheFile) > 0
       \/ cacheCheck = "invalidated" /\ Len(cacheFile) = 0

\* C7 (as claimed): past cache validation with agressiveCache set a validated
\* cache is in use; otherwise the run has exited before loading any module.
C7_AggressiveUsesValidatedCache ==
    (argv.agressiveCache /\ pc # "validate") =>
       \/ pc = "exited" /\ DOMAIN modules = {} /\ Len(cacheFile) = 0
       \/ cacheCheck = "validated" /\ Len(cacheFile) > 0

\* An aggressive run completed after its cache was invalidated.
C7_Witness ==
    argv.agressiveCache /\ cacheCheck = "invalidated" /\ pc = "done"

AggressiveCacheLoaded ==
    argv.agressiveCache /\ Len(cacheFile) > 0 /\ pc \notin {"validate", "load"}

\* C8 (as amended): in aggressive mode the modules registered from the cache
\* are exactly those recorded as non-ignored or as NPM module, an NPM module
\* longer than the stub threshold with an empty stub and no dependencies; a
\* module recorded as ignored and not NPM is not registered.
C8_AggressiveRegistersNonIgnoredOrNpm ==
    AggressiveCacheLoaded =>
       LET c == cacheFile[1].modules
       IN  /\ DOMAIN modules =
                {i \in DOMAIN c : ~c[i].ignored \/ c[i].isNpmModule}
           /\ \A i \in DOMAIN modules :
                 modules[i].dependencies =
                    IF /\ c[i].isNpmModule
                       /\ CodeLength(c[i].originalCode) > StubThreshold
                    THEN {} ELSE c[i].originalCode.deps

\* C8 (as claimed): in aggressive mode every module recorded as ignored and
\* not NPM is registered, and every dependency id of a loaded module resolves.
C8_AggressiveRegistersIgnored ==
    AggressiveCacheLoaded =>
       LET c == cacheFile[1].modules
       IN  /\ \A i \in DOMAIN c :
                 (c[i].ignored /\ ~c[i].isNpmModule) => i \in DOMAIN modules
           /\ \A i \in DOMAIN modules :
                 modules[i].dependencies \subseteq DOMAIN modules

\* An aggressive run on a validated cache completed with a stubbed NPM module
\* in the graph and a cached module left out of it.
C8_Witness ==
    /\ AggressiveCacheLoaded /\ pc = "done"
    /\ \E i \in DOMAIN cacheFile[1].modules : i \notin DOMAIN modules
    /\ \E i \in DOMAIN modules : modules[i].originalCode = StubCode

\* C9: for every entry module id, 0 included, a completed non-aggressive run
\* writes the cache exactly once, after the files are saved; without an entry
\* no cache is written.
C9_EntryEnablesCache ==
    /\ (pc = "done" /\ ~argv.agressiveCache) =>
          cacheWrites = IF argv.entry # NoEntry THEN 1 ELSE 0
    /\ pc # "done" => cacheWrites = 0

\* C10: during entry-closure computation an id without a module in the graph
\* aborts a non-aggressive run, which produces no output; an aggressive run
\* skips it and keeps the modules reachable from the entry.
C10_MissingDependency ==
    [][/\ (/\ pc = "filter" /\ argv.entry # NoEntry
           /\ \E id \in Reachable(modules, argv.entry) : id \notin DOMAIN modules)
          => /\ ~argv.agressiveCache
                => /\ pc' = "thrown"
                   /\ generatedFiles' = {} /\ savedFiles' = {}
                   /\ cacheWrites' = 0 /\ diskCache' = diskCache
             /\ (argv.agressiveCache /\ Len(cacheFile) = 0)
                => /\ pc' = "preparse"
                   /\ DOMAIN modules' =
                         Reachable(modules, argv.entry) \cap DOMAIN modules
       /\ pc = "thrown" => UNCHANGED vars]_vars

\* An aggressive run whose cache was invalidated went on past entry filtering
\* although a dependency of the entry has no module in the bundle.
C10_Witness ==
    /\ pc = "preparse" /\ argv.agressiveCache /\ cacheCheck = "invalidated"
    /\ argv.entry \in DOMAIN modules
    /\ \E id \in Reachable(ParseBundle(bundle), argv.entry) :
          id \notin DOMAIN bundle

\* C11: a __d call of malformed shape makes only that module's construction
\* fail: the fresh-parse stage goes on to the no-modules check with every
\* well-formed registration of the bundle registered in the graph.
C11_MalformedRegistrationSkipped ==
    [][(pc = "load" /\ Len(cacheFile) = 0)
          => /\ pc' = "check"
             /\ DOMAIN modules' =
                   {i \in DOMAIN bundle : bundle[i] \in Registration}]_vars

\* C12: when loading registered no module, the no-modules check ends the run
\* (NoModulesFound, exit code 1) with nothing initialized, tagged, rewritten,
\* generated or saved and no cache written; the run goes on to entry
\* filtering only with a non-empty graph, and an ended run does nothing more.
C12_NoModulesFound ==
    [][/\ (pc = "check" /\ DOMAIN modules = {})
          => /\ pc' = "exited"
             /\ initialized' = {} /\ tagged' = {} /\ rewritten' = {}
             /\ generatedFiles' = {} /\ savedFiles' = {}
             /\ cacheWrites' = 0 /\ diskCache' = diskCache
             /\ modules' = modules
       /\ (pc = "check" /\ DOMAIN modules # {}) => pc' = "filter"
       /\ pc = "exited" => UNCHANGED vars]_vars

\* A run without the aggressive cache ended at the no-modules check: on a
\* bundle without __d calls.
C12_Witness ==
    /\ pc = "exited" /\ ~argv.agressiveCache
    /\ DOMAIN bundle = {} /\ DOMAIN modules = {}

\* The ignore propagation has started: its first calculation was made.
PropagationStarted ==
    pc \in {"ignoreLoop", "decompile", "generate", "save", "cache", "done"}

\* The order of the stages.  Once ignore propagation has started the tagger
\* pass has run on every selected module, which includes every module that
\* is not ignored; once an editor or decompiler has run the ignore loop has
\* ended on an empty calculation (under `guard`: at the fixed point of the
\* ignore predicate); once a file is generated every selected module was
\* rewritten; once a file is saved every file was generated; when the cache
\* is written every generated file was saved.
StagesInSequence(guard) ==
    /\ PropagationStarted
          => /\ tagged = initialized
             /\ \A i \in DOMAIN modules : ~modules[i].ignored => i \in tagged
    /\ ~PropagationStarted => modulesToIgnore = {} /\ rounds = 0
    /\ (rewritten # {} \/ pc \in {"decompile", "generate", "save", "cache", "done"})
          => /\ modulesToIgnore = {}
             /\ pc \notin {"calculate", "ignoreLoop"}
             /\ guard => \A m \in DOMAIN modules :
                            ~PropagatorPredicate(modules, m)
    /\ rewritten # {} => rewritten = nonIgnoredModules
    /\ generatedFiles # {}
          => /\ pc \in {"save", "cache", "done"}
             /\ generatedFiles = {modules[i].moduleId : i \in rewritten}
    /\ savedFiles # {} => pc \in {"cache", "done"} /\ savedFiles = generatedFiles
    /\ cacheWrites > 0 => pc = "done" /\ savedFiles = generatedFiles
    /\ pc \in {"validate", "load", "check", "filter", "preparse", "tag"}
          => tagged = {} /\ rewritten = {}
    /\ pc \in {"calculate", "ignoreLoop", "decompile"}
          => rewritten = {} /\ generatedFiles = {}
    /\ pc = "generate" => generatedFiles = {} /\ savedFiles = {}
    /\ pc \in {"save", "cache"} => cacheWrites = 0

\* C13 (as amended): the stages run strictly one after the other; the
\* ignore loop has ended before any editor or decompiler runs, at the fixed
\* point of the ignore predicate when the aggressive cache is off.
C13_StagesInSequence == StagesInSequence(~argv.agressiveCache)

\* C13 (as claimed): the fixed point is reached before rewriting in every
\* mode.
C13_FixedPointBeforeRewriting == StagesInSequence(TRUE)

\* A completed run that went through every stage with work to do: modules
\* were marked by the ignore loop, files were saved and the cache written.
C13_Witness ==
    /\ pc = "done" /\ rounds >= 1 /\ cacheWrites = 1
    /\ savedFiles # {} /\ savedFiles = generatedFiles

\* The ignored/NPM classification of a module.
Classification(m) ==
    [ignored |-> m.ignored, isNpmModule |-> m.isNpmModule,
     npmModuleName |-> m.npmModuleName]

\* A completed run that used a validated cache emitted the files a fresh run
\* on the same bundle, entry and decompileIgnored emits, and every module of
\* its graph has the classification the fresh run gives it.
SameOutputAsFreshRun(guard) ==
    (pc = "done" /\ cacheCheck = "validated" /\ guard) =>
       LET fresh == FreshRunModules(bundle, argv.entry, argv.decompileIgnored)
       IN  /\ savedFiles =
                 FreshRunEmitted(bundle, argv.entry, argv.decompileIgnored)
           /\ \A i \in DOMAIN modules :
                 /\ i \in DOMAIN fresh
                 /\ Classification(modules[i]) = Classification(fresh[i])

\* C14 (as amended): without the aggressive cache, a run with a valid cache
\* emits the same module ids as a fresh run on the same bundle and options,
\* over the same graph with the same classification of every module.
C14_CachedRunMatchesFreshRun ==
    /\ SameOutputAsFreshRun(~argv.agressiveCache)
    /\ (pc = "done" /\ cacheCheck = "validated" /\ ~argv.agressiveCache)
          => DOMAIN modules =
                DOMAIN FreshRunModules(bundle, argv.entry, argv.decompileIgnored)

\* C14 (as claimed): the same for every run with a valid cache.
C14_AnyCachedRunMatchesFreshRun == SameOutputAsFreshRun(TRUE)

\* A run without the aggressive cache completed on a validated cache that
\* holds an NPM module and a module the ignore propagation had marked, and
\* emitted files.
C14_Witness ==
    /\ pc = "done" /\ cacheCheck = "validated" /\ ~argv.agressiveCache
    /\ savedFiles # {}
    /\ \E i \in DOMAIN modules : modules[i].ignored

\* C15: the tagging pass gives every selected module whose originalCode
\* matches the array-spread fingerprint isNpmModule = true, the npmModuleName
\* of the toConsumableArray helper and ignored = true, changing nothing else
\* of it; a selected module that does not match and a module that was not
\* selected are left as they were.
C15_BabelTaggerEffect ==
    [][pc = "tag"
          => /\ tagged' = nonIgnoredModules
             /\ DOMAIN modules' = DOMAIN modules
             /\ \A i \in DOMAIN modules :
                   IF i \in nonIgnoredModules
                      /\ modules[i].originalCode.body = "spread"
                   THEN /\ modules'[i].isNpmModule
                        /\ modules'[i].npmModuleName =
                              "@babel/runtime/helpers/toConsumableArray"
                        /\ modules'[i].ignored
                        /\ modules'[i].moduleId = modules[i].moduleId
                        /\ modules'[i].dependencies = modules[i].dependencies
                        /\ modules'[i].originalCode = modules[i].originalCode
                   ELSE modules'[i] = modules[i]]_vars

\* The tagging pass of a run that parsed the bundle has tagged a matching
\* module and left a non-matching one untouched.
C15_Witness ==
    /\ pc = "calculate" /\ Len(cacheFile) = 0
    /\ \E i \in tagged :
          /\ modules[i].originalCode.body = "spread"
          /\ modules[i].isNpmModule /\ modules[i].ignored
    /\ \E j \in tagged :
          /\ modules[j].originalCode.body = "plain"
          /\ ~modules[j].isNpmModule /\ ~modules[j].ignored

\* C16: tagging is idempotent: after the tagging pass, running the pass
\* again, over the modules it ran on or over the modules selected anew,
\* changes no module.
C16_TaggingIdempotent ==
    pc = "calculate" =>
       /\ TagModules(modules, tagged) = modules
       /\ TagModules(modules, NonIgnored(modules, argv.decompileIgnored))
             = modules

\* The tagging pass has just tagged a module that came unclassified out of
\* the parser.
C16_Witness ==
    /\ pc = "calculate" /\ cacheCheck # "validated"
    /\ \E i \in tagged : modules[i].isNpmModule /\ modules[i].ignored

\* C17: the save loop calls writeFileSync on a generated file exactly when
\* the output folder has no file of that name or the file's content differs
\* from the generated code; afterwards every generated file holds its
\* generated code, and the files the run did not generate are as they were.
C17_WriteOnlyIfChanged ==
    [][pc = "save"
          => /\ fileWrites' \subseteq generatedFiles
             /\ \A f \in generatedFiles :
                   LET code == <<"js", modules[f].originalCode>>
                   IN  /\ f \in fileWrites'
                           <=> (f \notin DOMAIN outDir \/ outDir[f] # code)
                       /\ f \in DOMAIN outDir' /\ outDir'[f] = code
             /\ DOMAIN outDir' = DOMAIN outDir \cup generatedFiles
             /\ \A f \in DOMAIN outDir \ generatedFiles :
                   outDir'[f] = outDir[f]]_vars

\* The save loop wrote one generated file and left another, which already
\* held its generated code, untouched.
C17_Witness ==
    /\ pc = "cache"
    /\ fileWrites # {}
    /\ \E f \in savedFiles \ fileWrites :
          outDir[f] = <<"js", modules[f].originalCode>>

C19_GraphFrozen ==
    [][/\ pc \in {"preparse", "tag", "calculate", "ignoreLoop", "decompile",
                  "generate", "save", "cache", "done"}
          => /\ DOMAIN modules' = DOMAIN modules
             /\ \A i \in DOMAIN modules :
                   /\ modules'[i].moduleId = modules[i].moduleId
                   /\ modules'[i].dependencies = modules[i].dependencies
                   /\ modules'[i].originalCode = modules[i].originalCode
       /\ \A i \in DOMAIN modules' : modules'[i].moduleId = i]_vars

\* A run completed in which entry filtering removed a module from the graph
\* and the tagger and the ignore loop then changed flags of the modules left.
C19_Witness ==
    /\ pc = "done" /\ cacheCheck = "absent" /\ rounds >= 1
    /\ DOMAIN modules # {} /\ DOMAIN modules # DOMAIN bundle
    /\ \E i \in DOMAIN modules : modules[i].ignored

\* C20: every module an editor or decompiler ran on, and every module code
\* was generated for, had initalize() and the tagger pass run on it before:
\* the selection made after ignore propagation is within the selection made
\* before pre-parsing.
C20_RewrittenWereTagged ==
    /\ rewritten \subseteq initialized
    /\ rewritten \subseteq tagged
    /\ generatedFiles \subseteq {modules[i].moduleId : i \in tagged}
    /\ pc \in {"generate", "save", "cache", "done"}
          => /\ rewritten = nonIgnoredModules
             /\ nonIgnoredModules \subseteq initialized \cap tagged

\* A completed run rewrote and generated some of the modules it had tagged,
\* but not all of them: the others were ignored in between.
C20_Witness ==
    /\ pc = "done" /\ rewritten # {} /\ generatedFiles # {}
    /\ rewritten # tagged

====
